---- MODULE Spec2Model ----
(***************************************************************************)
(* A model of pake (src/pake.py): the variable table, the rule registry,   *)
(* the target collection, Target.build / Target.clean and the driver.      *)
(*                                                                         *)
(* Strings are sequences of one-character strings, so that the regular     *)
(* expression search of TargetCollection.get and the key=value parse of    *)
(* main are computed and not postulated.                                   *)
(***************************************************************************)
EXTENDS Integers, Sequences, FiniteSets, TLC

VARIABLES
    environ,      \* os.environ, the seed of the variable table
    variables,    \* VariableCollection: key -> value
    arg,          \* main: the command-line token processed last
    argc,         \* main: number of command-line tokens processed
    targets_,     \* main: the target names collected from the command line
    targets,      \* TargetCollection.targets: name -> Target
    default,      \* TargetCollection.default: id of the default Target, 0 for None
    rules,        \* rules: pattern -> factory
    nextId,       \* identity of the next Target object constructed
    factoryCalls, \* number of rule factory invocations so far
    result,       \* outcome of the last TargetCollection.add / get call
    files,        \* filesystem: path -> st_mtime, for the files that exist
    dirs,         \* filesystem: the directories that exist
    now,          \* wall clock (time.time())
    options,      \* main: the parsed option flags
    stack,        \* call stack of Target.build / Target.clean frames
    pc,           \* position of the process
    session,      \* number of the current run of the process
    log,          \* events of the current run, per target
    script,       \* what the build script declared and the command line asked
    calls         \* number of direct Target.clean calls made by the script

vars == <<environ, variables, arg, argc, targets_, targets, default, rules,
          nextId, factoryCalls, result, files, dirs, now, options, stack,
          pc, session, log, script, calls>>

varsTable == <<environ, variables, arg, argc, targets_>>
varsRegistry == <<targets, default, rules, nextId, factoryCalls, result>>
varsFs == <<files, dirs, now>>
varsRun == <<options, stack, session, log, script, calls>>

(***************************************************************************)
(* Bounds of the model.                                                    *)
(***************************************************************************)
MaxArgs == 2        \* command-line tokens per run
MaxObjs == 3        \* Target objects constructed in the registry model
MaxTime == 2        \* last tick of the wall clock
MaxMtime == 1       \* newest modification time of a file present at start
MaxSessions == 2    \* runs of the process over the same filesystem
MaxCalls == 2       \* direct calls of Target.clean and Target.build by the script
MaxDepth == 4       \* the interpreter's recursion limit, in build and clean frames

Max(a, b) == IF a >= b THEN a ELSE b

\* self.timestamp = None
NoneTs == -2

(***************************************************************************)
(* Strings.                                                                *)
(***************************************************************************)
SeqsUpTo(S, n) == UNION {[1..k -> S] : k \in 0..n}

\* re \w
WordChars == {"K", "v", "a", "b", "s", "d"}

\* regexp.search(name) for a pattern of literal characters: the pattern
\* occurs somewhere in the name.
Search(pattern, name) ==
    \E i \in 1..(Len(name) + 1) :
        /\ i + Len(pattern) - 1 <= Len(name)
        /\ SubSeq(name, i, i + Len(pattern) - 1) = pattern

\* os.path.dirname: everything before the last "/", "" when there is none.
Dirname(path) ==
    LET slashes == {i \in 1..Len(path) : path[i] = "/"}
    IN  IF slashes = {} THEN <<>>
        ELSE SubSeq(path, 1, (CHOOSE i \in slashes : \A j \in slashes : j <= i) - 1)

(***************************************************************************)
(* Variable table and the command-line tokens of main.                     *)
(***************************************************************************)
TokChars == {"K", "v", "="}
TokLens == {1, 2, 3}
Tokens == UNION {[1..k -> TokChars] : k \in TokLens}
EnvKeys == {<<"K">>}
ScriptKeys == {<<"K">>, <<"v">>}
EnvVals == {<<"v">>, <<>>}
Environs == UNION {[D -> EnvVals] : D \in SUBSET EnvKeys}

\* length of the longest prefix of word characters (the greedy \w+)
WordRun(s) ==
    LET ok == {k \in 0..Len(s) : \A i \in 1..k : s[i] \in WordChars}
    IN  CHOOSE k \in ok : \A j \in ok : j <= k

\* re.match(r'(?P<key>\w+)=(?P<value>.*)\Z', arg)
IsAssignment(s) ==
    LET k == WordRun(s) IN k >= 1 /\ k < Len(s) /\ s[k + 1] = "="
ArgKey(s) == SubSeq(s, 1, WordRun(s))
ArgValue(s) == SubSeq(s, WordRun(s) + 2, Len(s))

\* VariableCollection.__setitem__
SetItemRestricted(table, key, value) ==
    IF key \in DOMAIN table THEN table ELSE table @@ (key :> value)

\* dict.__setitem__
DictSetItem(table, key, value) ==
    [k \in DOMAIN table \cup {key} |-> IF k = key THEN value ELSE table[k]]

\* what main does with a key=value token
StoreArgAsSetter(table, key, value) == SetItemRestricted(table, key, value)
StoreArg(table, key, value) == DictSetItem(table, key, value)

(***************************************************************************)
(* Targets, rules and the target collection.                               *)
(***************************************************************************)
A == <<"a", "b">>
B == <<"d", "/", "b">>
S == <<"s">>
Names == {A, B, S}
Patterns == {<<"a">>, <<"b">>}
ActionKinds == {"none", "touch", "run", "output"}
Factories == {"mkFile", "mkNode"}

\* Target.__init__
Target(id, name, action, clean, dependencies, makedirs, phony, precious) ==
    [id |-> id, name |-> name, action |-> action, clean |-> clean,
     dependencies |-> dependencies, makedirs |-> makedirs, phony |-> phony,
     precious |-> precious, timestamp |-> NoneTs]

\* the keyword defaults of Target.__init__
DefaultKw == [clean |-> TRUE, makedirs |-> TRUE, phony |-> FALSE, precious |-> FALSE]

\* the Target a rule's factory returns for a name: a user-supplied targetmaker
MakeTarget(factory, id, name) ==
    IF factory = "mkFile"
    THEN Target(id, name, "touch", TRUE, <<>>, TRUE, FALSE, FALSE)
    ELSE Target(id, name, "none", TRUE, <<>>, TRUE, FALSE, FALSE)

\* the placeholder of TargetCollection.get: Target(name, precious=True)
PlaceholderNotPrecious(id, name) == Target(id, name, "none", TRUE, <<>>, TRUE, FALSE, FALSE)
Placeholder(id, name) == Target(id, name, "none", TRUE, <<>>, TRUE, FALSE, TRUE)

\* what the last call gave: the value returned or the exception raised; for
\* get, whether the name was registered, how many rules matched it and how
\* many factories were invoked; for build, the timestamp tested at line 74
NoResult == [op |-> "none", name |-> <<>>, ret |-> 0, exc |-> "none",
             registered |-> FALSE, matches |-> 0, made |-> 0, own |-> 0]

\* the rules whose pattern matches a name
Matching(rs, name) == {p \in DOMAIN rs : Search(p, name)}

\* the rules a lookup may meet first in rules.iteritems(): any matching one
FirstChoices(rs, name) ==
    IF Matching(rs, name) = {} THEN {<<>>} ELSE Matching(rs, name)

\* self.targets[name] = target
Store(reg, name, t) == [n \in DOMAIN reg \cup {name} |-> IF n = name THEN t ELSE reg[n]]

\* line 157: name in self.targets
RegisteredNever(reg, name) == FALSE
Registered(reg, name) == name \in DOMAIN reg

\* lines 164-165: a second matching rule is met
AmbiguousNever(m) == FALSE
Ambiguous(m) == Cardinality(m) >= 2

\* TargetCollection.get(name), with `first` the matching rule the iteration
\* meets first: the registry, the counters and the outcome after the call.
\* The factory of the first matching rule is invoked before a second match
\* can raise AmbiguousRuleError.
Get(reg, rs, id, nf, name, first) ==
    LET m == Matching(rs, name)
        res == [NoResult EXCEPT !.op = "get", !.name = name,
                                !.registered = name \in DOMAIN reg,
                                !.matches = Cardinality(m)]
    IN  IF Registered(reg, name)
        THEN [targets |-> reg, nextId |-> id, factoryCalls |-> nf,
              result |-> [res EXCEPT !.ret = reg[name].id]]
        ELSE IF m = {}
        THEN [targets |-> Store(reg, name, Placeholder(id, name)),
              nextId |-> id + 1, factoryCalls |-> nf,
              result |-> [res EXCEPT !.ret = id]]
        ELSE IF Ambiguous(m)
        THEN [targets |-> reg, nextId |-> id + 1, factoryCalls |-> nf + 1,
              result |-> [res EXCEPT !.exc = "AmbiguousRuleError", !.made = 1]]
        ELSE [targets |-> Store(reg, name, MakeTarget(rs[first], id, name)),
              nextId |-> id + 1, factoryCalls |-> nf + 1,
              result |-> [res EXCEPT !.ret = id, !.made = 1]]

\* line 150: target.name in self.targets
DuplicateNever(reg, name) == FALSE
Duplicate(reg, name) == name \in DOMAIN reg

\* TargetCollection.add(target)
Add(reg, dflt, t) ==
    LET res == [NoResult EXCEPT !.op = "add", !.name = t.name,
                                !.registered = t.name \in DOMAIN reg]
    IN  IF Duplicate(reg, t.name)
        THEN [targets |-> reg, default |-> dflt,
              result |-> [res EXCEPT !.exc = "DuplicateTargetError"]]
        ELSE [targets |-> Store(reg, t.name, t),
              default |-> IF dflt = 0 THEN t.id ELSE dflt,
              result |-> res]

(***************************************************************************)
(* Initial values shared by the specifications.                            *)
(***************************************************************************)
EmptyFn == [x \in {} |-> 0]
NoOptions == [clean |-> FALSE, dry_run |-> FALSE, really |-> FALSE]
\* per target: the calls of build and clean entered, the stats, the actions
\* run and the removals made, and the rank of the target among those judged
\* stale (the 'action' message of line 75), 0 when it was not judged stale
NoLog == [n \in Names |-> [build |-> 0, stat |-> 0, action |-> 0, clean |-> 0,
                           remove |-> 0, stale |-> 0]]

InitTableIdle ==
    /\ environ = EmptyFn /\ variables = EmptyFn
    /\ arg = <<>> /\ argc = 0
InitFsIdle == files = EmptyFn /\ dirs = {} /\ now = 1
InitRunIdle ==
    /\ options = NoOptions /\ stack = <<>> /\ session = 1
    /\ log = NoLog /\ calls = 0
    /\ script = [targets |-> EmptyFn, targets_ |-> <<>>, prev |-> "none"]

(***************************************************************************)
(* The variable table: the script's assignments and main's argument loop   *)
(* (lines 173-186 and 219-231).                                            *)
(***************************************************************************)
InitVars ==
    /\ environ \in Environs
    /\ variables = environ
    /\ arg = <<>> /\ argc = 0 /\ targets_ = <<>>
    /\ targets = (S :> Target(1, S, "touch", TRUE, <<>>, TRUE, FALSE, FALSE))
    /\ default \in {0, 1}
    /\ rules = EmptyFn /\ nextId = 2 /\ factoryCalls = 0 /\ result = NoResult
    /\ InitFsIdle /\ InitRunIdle
    /\ pc = "script"

\* variables[key] = value in the build script
SetVariable(key, value) ==
    /\ pc = "script"
    /\ variables' = SetItemRestricted(variables, key, value)
    /\ UNCHANGED <<environ, arg, argc, targets_, pc>>
    /\ UNCHANGED <<varsRegistry, varsFs, varsRun>>

\* the build script calls main()
EnterMain ==
    /\ pc = "script"
    /\ pc' = "args"
    /\ UNCHANGED <<varsTable, varsRegistry, varsFs, varsRun>>

\* one iteration of `for arg in args` (lines 220-229)
ParseArg(token) ==
    /\ pc = "args"
    /\ argc < MaxArgs
    /\ arg' = token
    /\ argc' = argc + 1
    /\ IF IsAssignment(token)
       THEN /\ variables' = StoreArg(variables, ArgKey(token), ArgValue(token))
            /\ UNCHANGED targets_
       ELSE /\ targets_' = Append(targets_, token)
            /\ UNCHANGED variables
    /\ UNCHANGED <<environ, pc>>
    /\ UNCHANGED <<varsRegistry, varsFs, varsRun>>

\* the name of the default target: targets.default.name
DefaultName == CHOOSE n \in DOMAIN targets : targets[n].id = default

\* the end of the argument loop (lines 230-231); targets.default is None
\* when nothing was declared, and .name then raises AttributeError
ArgsDone ==
    /\ pc = "args"
    /\ IF targets_ # <<>>
       THEN pc' = "main" /\ UNCHANGED targets_
       ELSE IF default = 0
       THEN pc' = "crash" /\ UNCHANGED targets_
       ELSE pc' = "main" /\ targets_' = <<DefaultName>>
    /\ UNCHANGED <<environ, variables, arg, argc>>
    /\ UNCHANGED <<varsRegistry, varsFs, varsRun>>

NextVars ==
    \/ \E key \in ScriptKeys, value \in EnvVals : SetVariable(key, value)
    \/ EnterMain
    \/ \E token \in Tokens : ParseArg(token)
    \/ ArgsDone

SpecVars == InitVars /\ [][NextVars]_vars

(***************************************************************************)
(* The target collection and the declaration surface (lines 143-170 and    *)
(* 250-267).                                                               *)
(***************************************************************************)
DeclActions == {"none", "touch"}
DeclDeps == {<<>>, <<S>>}

InitReg ==
    /\ InitTableIdle /\ InitFsIdle /\ InitRunIdle
    /\ targets_ = <<>>
    /\ targets = EmptyFn /\ default = 0 /\ rules = EmptyFn
    /\ nextId = 1 /\ factoryCalls = 0 /\ result = NoResult
    /\ pc = "script"

\* @target(name, *dependencies, **kwargs) applied to an action (lines 256-261)
DeclTarget(name, dependencies, action, phony, precious) ==
    /\ pc = "script"
    /\ nextId <= MaxObjs
    /\ LET t == Target(nextId, name, action, TRUE, dependencies, TRUE, phony, precious)
           r == Add(targets, default, t)
       IN  /\ targets' = r.targets
           /\ default' = r.default
           /\ result' = r.result
    /\ nextId' = nextId + 1
    /\ UNCHANGED <<rules, factoryCalls, pc>>
    /\ UNCHANGED <<varsTable, varsFs, varsRun>>

\* virtual(name, *dependencies) (lines 264-267)
DeclVirtual(name, dependencies) ==
    /\ pc = "script"
    /\ nextId <= MaxObjs
    /\ LET t == Target(nextId, name, "none", FALSE, dependencies, TRUE, TRUE, FALSE)
           r == Add(targets, default, t)
       IN  /\ targets' = r.targets
           /\ default' = r.default
           /\ result' = r.result
    /\ nextId' = nextId + 1
    /\ UNCHANGED <<rules, factoryCalls, pc>>
    /\ UNCHANGED <<varsTable, varsFs, varsRun>>

\* @rule(pattern) applied to a targetmaker (lines 250-253)
DeclRule(pattern, factory) ==
    /\ pc = "script"
    /\ rules' = [p \in DOMAIN rules \cup {pattern} |->
                    IF p = pattern THEN factory ELSE rules[p]]
    /\ UNCHANGED <<targets, default, nextId, factoryCalls, result, pc>>
    /\ UNCHANGED <<varsTable, varsFs, varsRun>>

\* targets.get(name) called from the script
CallGet(name) ==
    /\ pc = "script"
    /\ nextId <= MaxObjs \/ name \in DOMAIN targets
    /\ \E first \in FirstChoices(rules, name) :
           LET r == Get(targets, rules, nextId, factoryCalls, name, first)
           IN  /\ targets' = r.targets
               /\ nextId' = r.nextId
               /\ factoryCalls' = r.factoryCalls
               /\ result' = r.result
    /\ UNCHANGED <<default, rules, pc>>
    /\ UNCHANGED <<varsTable, varsFs, varsRun>>

NextReg ==
    \/ \E name \in Names, dependencies \in DeclDeps, action \in DeclActions :
           DeclTarget(name, dependencies, action, FALSE, FALSE)
    \/ \E name \in Names : DeclVirtual(name, <<>>)
    \/ \E pattern \in Patterns, factory \in Factories : DeclRule(pattern, factory)
    \/ \E name \in Names : CallGet(name)

SpecReg == InitReg /\ [][NextReg]_vars

(***************************************************************************)
(* The filesystem and the call stack.                                      *)
(***************************************************************************)
\* os.path.exists
Exists(fs, ds, path) == path \in DOMAIN fs \/ path \in ds

\* os.remove(path); the OSError of a missing file is swallowed by the caller
Remove(fs, path) == [n \in DOMAIN fs \ {path} |-> fs[n]]

\* writing a file at time t: open(path, 'w'), os.utime(path, None)
WriteFile(fs, path, t) == [n \in DOMAIN fs \cup {path} |-> IF n = path THEN t ELSE fs[n]]

\* whether open(path, 'w') can succeed: the parent directory exists
CanWrite(ds, path) == Dirname(path) = <<>> \/ Dirname(path) \in ds

\* Target.makedirs(path) (lines 111-113)
Makedirs(fs, ds, path) ==
    IF path # <<>> /\ ~Exists(fs, ds, path) THEN ds \cup {path} ELSE ds

\* the test of Target.clean (line 92)
CleansIgnoringPrecious(t, really) == t.clean \/ really
Cleans(t, really) == (t.clean \/ really) /\ ~t.precious

\* lines 92-97 of Target.clean: the filesystem after the removal attempt
CleanSelf(fs, t, really) == IF Cleans(t, really) THEN Remove(fs, t.name) ELSE fs

Frame(fn, name, really, recurse, dry_run, ret) ==
    [fn |-> fn, name |-> name, i |-> 1, timestamp |-> 0,
     really |-> really, recurse |-> recurse, dry_run |-> dry_run, ret |-> ret]

Top == stack[Len(stack)]
Pop == SubSeq(stack, 1, Len(stack) - 1)
Bump(l, name, field) == [l EXCEPT ![name][field] = @ + 1]

\* a loop that passes over the dependency after the one just handled
ResumeSkippingNext(frame, ret) ==
    [frame EXCEPT !.i = @ + 2,
                  !.timestamp = IF frame.fn = "build" THEN Max(@, ret) ELSE @]

\* the caller's frame after a callee returned `ret`: line 67 for build, the
\* next dependency for clean
Resume(frame, ret) ==
    [frame EXCEPT !.i = @ + 1,
                  !.timestamp = IF frame.fn = "build" THEN Max(@, ret) ELSE @]

\* the stack after the top frame returned `ret`
Return(ret) ==
    IF Len(stack) = 1 THEN <<>>
    ELSE [Pop EXCEPT ![Len(stack) - 1] = Resume(@, ret)]

(***************************************************************************)
(* Target.clean (lines 91-100), called by the script and by main -c.       *)
(***************************************************************************)
\* target.clean(really, recurse) entered on the target registered as `name`:
\* lines 92-97 run, and the frame waits at the loop of line 99
EnterClean(name, really, recurse, ret, reg) ==
    /\ files' = CleanSelf(files, reg[name], really)
    /\ log' = IF Cleans(reg[name], really)
              THEN Bump(Bump(log, name, "clean"), name, "remove")
              ELSE Bump(log, name, "clean")
    /\ stack' = Append(stack, Frame("clean", name, really, recurse, FALSE, ret))
    /\ pc' = "clean"

\* the build script calls targets.get(name).clean(really, recurse)
ScriptClean(name, really, recurse) ==
    /\ pc = "script"
    /\ calls < MaxCalls
    /\ calls' = calls + 1
    /\ \E first \in FirstChoices(rules, name) :
           LET r == Get(targets, rules, nextId, factoryCalls, name, first)
           IN  /\ targets' = r.targets
               /\ nextId' = r.nextId
               /\ factoryCalls' = r.factoryCalls
               /\ result' = r.result
               /\ IF r.result.exc = "none"
                  THEN EnterClean(name, really, recurse, "script", r.targets)
                  ELSE pc' = "crash" /\ UNCHANGED <<files, log, stack>>
    /\ UNCHANGED <<default, rules, dirs, now, options, session, script>>
    /\ UNCHANGED varsTable

\* main is called with -c, with or without -r, and the target names `names`
\* (lines 206-231, the option parser's result taken as given)
MainArgsClean(names, really) ==
    /\ pc = "script"
    /\ options' = [clean |-> TRUE, dry_run |-> FALSE, really |-> really]
    /\ IF names # <<>>
       THEN pc' = "main" /\ targets_' = names
       ELSE IF default = 0
       THEN pc' = "crash" /\ UNCHANGED targets_
       ELSE pc' = "main" /\ targets_' = <<DefaultName>>
    /\ UNCHANGED <<environ, variables, arg, argc>>
    /\ UNCHANGED <<stack, session, log, script, calls>>
    /\ UNCHANGED <<varsRegistry, varsFs>>

\* one iteration of main's loop in clean mode (lines 233-236)
MainClean ==
    /\ pc = "main"
    /\ options.clean
    /\ targets_ # <<>>
    /\ targets_' = Tail(targets_)
    /\ \E first \in FirstChoices(rules, Head(targets_)) :
           LET name == Head(targets_)
               r == Get(targets, rules, nextId, factoryCalls, name, first)
           IN  /\ targets' = r.targets
               /\ nextId' = r.nextId
               /\ factoryCalls' = r.factoryCalls
               /\ result' = r.result
               /\ IF r.result.exc = "none"
                  THEN EnterClean(name, options.really, TRUE, "main", r.targets)
                  ELSE pc' = "crash" /\ UNCHANGED <<files, log, stack>>
    /\ UNCHANGED <<environ, variables, arg, argc>>
    /\ UNCHANGED <<default, rules, dirs, now, options, session, script, calls>>

\* line 100: the next dependency is resolved and cleaned
CleanDep ==
    /\ pc = "clean"
    /\ Top.fn = "clean"
    /\ Top.recurse
    /\ Top.i <= Len(targets[Top.name].dependencies)
    /\ \E first \in FirstChoices(rules, targets[Top.name].dependencies[Top.i]) :
           LET name == targets[Top.name].dependencies[Top.i]
               r == Get(targets, rules, nextId, factoryCalls, name, first)
           IN  /\ targets' = r.targets
               /\ nextId' = r.nextId
               /\ factoryCalls' = r.factoryCalls
               /\ result' = r.result
               /\ IF r.result.exc = "none"
                  THEN EnterClean(name, Top.really, Top.recurse, Top.ret, r.targets)
                  ELSE pc' = "crash" /\ stack' = <<>> /\ UNCHANGED <<files, log>>
    /\ UNCHANGED <<default, rules, dirs, now, options, session, script, calls>>
    /\ UNCHANGED varsTable

\* clean returns: recurse is false or the dependencies are exhausted
CleanReturn ==
    /\ pc = "clean"
    /\ Top.fn = "clean"
    /\ ~Top.recurse \/ Top.i > Len(targets[Top.name].dependencies)
    /\ stack' = Return(0)
    /\ pc' = IF Len(stack) = 1 THEN Top.ret ELSE pc
    /\ UNCHANGED <<options, session, log, script, calls>>
    /\ UNCHANGED <<varsTable, varsRegistry, varsFs>>

\* main returns when the loop of line 233 is exhausted
MainReturn ==
    /\ pc = "main"
    /\ targets_ = <<>>
    /\ pc' = "done"
    /\ UNCHANGED <<environ, variables, arg, argc, targets_>>
    /\ UNCHANGED <<varsRegistry, varsFs, varsRun>>

\* the registry a build script leaves: the declared targets, numbered in the
\* order of their declaration; the first one is the default
Declare(decls) ==
    [n \in {decls[i].name : i \in DOMAIN decls} |->
        LET i == CHOOSE j \in DOMAIN decls : decls[j].name = n
        IN  [decls[i] EXCEPT !.id = i]]

\* the declarations of the clean model: A on B and S with every combination
\* of flags, B on S, S a leaf; B may be virtual, S precious, and B and S may
\* be left undeclared
FlagKws == [clean : BOOLEAN, precious : BOOLEAN]
CleanDeclsA == {<<Target(0, A, "touch", k.clean, <<B, S>>, TRUE, FALSE, k.precious)>> :
                   k \in FlagKws}
CleanDeclsB == {<<Target(0, B, "touch", TRUE, <<S>>, TRUE, FALSE, FALSE)>>,
                <<Target(0, B, "none", FALSE, <<S>>, TRUE, TRUE, FALSE)>>, <<>>}
CleanDeclsS == {<<Target(0, S, "touch", TRUE, <<>>, TRUE, FALSE, FALSE)>>,
                <<Target(0, S, "touch", TRUE, <<>>, TRUE, FALSE, TRUE)>>, <<>>}
CleanScripts == {a \o b \o s : a \in CleanDeclsA, b \in CleanDeclsB, s \in CleanDeclsS}
CleanRules == {EmptyFn, (<<"b">> :> "mkFile")}

InitClean ==
    /\ InitTableIdle
    /\ targets_ = <<>>
    /\ \E decls \in CleanScripts :
           /\ targets = Declare(decls)
           /\ nextId = Len(decls) + 1
    /\ default = 1
    /\ rules \in CleanRules
    /\ factoryCalls = 0 /\ result = NoResult
    /\ files \in {[n \in D |-> 1] : D \in {Names, {A, S}}}
    /\ dirs = {<<"d">>} /\ now = 1
    /\ options = NoOptions /\ stack = <<>> /\ session = 1
    /\ log = NoLog /\ calls = 0
    /\ script = [targets |-> targets, targets_ |-> <<>>, prev |-> "none"]
    /\ pc = "script"

CleanArgs == {<<>>, <<A>>, <<B>>, <<S>>, <<B, A>>}

NextClean ==
    \/ \E name \in Names, really \in BOOLEAN, recurse \in BOOLEAN :
           ScriptClean(name, really, recurse)
    \/ \E names \in CleanArgs, really \in BOOLEAN : MainArgsClean(names, really)
    \/ MainClean
    \/ CleanDep
    \/ CleanReturn
    \/ MainReturn

SpecClean == InitClean /\ [][NextClean]_vars

(***************************************************************************)
(* Target.build (lines 63-84) with the action helpers touch, run and       *)
(* output (lines 115-140), and main's loop in build mode (lines 232-241).  *)
(***************************************************************************)
\* lines 70-73: the artifact's mtime, or -1 for a phony or missing one
StatMissingAsZero(t, fs) == IF ~t.phony /\ t.name \in DOMAIN fs THEN fs[t.name] ELSE 0
Stat(t, fs) == IF ~t.phony /\ t.name \in DOMAIN fs THEN fs[t.name] ELSE -1

\* lines 69-73: the memoized timestamp at the staleness test
MemoAlwaysStats(t, fs) == Stat(t, fs)
Memo(t, fs) == IF t.timestamp = NoneTs THEN Stat(t, fs) ELSE t.timestamp

\* line 74
StaleOrEqual(own, depmax) == own <= depmax
Stale(own, depmax) == own < depmax

\* line 83: timestamp or time.time()
AdvanceMaxNow(depmax, t) == Max(depmax, t)
AdvanceToNow(depmax, t) == t
Advance(depmax, t) == IF depmax # 0 THEN depmax ELSE t

\* the ways an executed action can end: touch and a zero exit write the
\* artifact; a non-zero exit of run may leave a partial artifact behind
Outcomes(action) ==
    IF action = "run" THEN {"ok", "fail", "partial"}
    ELSE IF action = "output" THEN {"ok", "fail"}
    ELSE {"ok"}

Failed(outcome) == outcome \in {"fail", "partial"}

\* the cleanup of run and output after CalledProcessError (lines 123, 132):
\* self.clean(recurse=False)
FailureCleanRecursive(fs, t, reg) ==
    LET gone == {n \in {t.name} \cup {t.dependencies[i] : i \in DOMAIN t.dependencies} :
                    n \in DOMAIN reg /\ Cleans(reg[n], FALSE)}
    IN  [n \in DOMAIN fs \ gone |-> fs[n]]
FailureClean(fs, t, reg) == CleanSelf(fs, t, FALSE)

\* the filesystem after the action of target t ran at time tm with `outcome`
\* (the parent directory is there: see the IOError of BuildStep)
ActionFiles(fs, t, tm, outcome, reg) ==
    IF outcome = "ok" THEN WriteFile(fs, t.name, tm)
    ELSE IF outcome = "partial" THEN FailureClean(WriteFile(fs, t.name, tm), t, reg)
    ELSE FailureClean(fs, t, reg)

\* line 65: the dependencies a visit builds, memoized timestamp or not
BuildDepsUnlessMemoized(t) == IF t.timestamp # NoneTs THEN <<>> ELSE t.dependencies
BuildDeps(t) == t.dependencies

\* where a BuildError raised under a call from `ret` leaves the process: main
\* catches it and exits with status 1 (lines 239-241), the script does not
RaiseAndContinue(ret) == ret
Raise(ret) == IF ret = "main" THEN "exit1" ELSE "crash"

\* lines 78-82: whether a stale target's action is invoked
InvokesInDryRun(t, dry_run) == t.action # "none"
Invokes(t, dry_run) == t.action # "none" /\ ~dry_run

\* line 75: the target is logged as judged stale, after those logged before
Judged(l, name) ==
    [l EXCEPT ![name].stale = 1 + Cardinality({n \in Names : l[n].stale > 0})]

\* target.build(dry_run) entered: a frame at the loop of line 65
EnterBuild(name, dry_run, ret) ==
    /\ stack' = Append(stack, Frame("build", name, FALSE, FALSE, dry_run, ret))
    /\ log' = Bump(log, name, "build")
    /\ pc' = "build"

\* one iteration of main's loop in build mode (lines 233-238)
MainBuild ==
    /\ pc = "main"
    /\ ~options.clean
    /\ targets_ # <<>>
    /\ targets_' = Tail(targets_)
    /\ \E first \in FirstChoices(rules, Head(targets_)) :
           LET name == Head(targets_)
               r == Get(targets, rules, nextId, factoryCalls, name, first)
           IN  /\ targets' = r.targets
               /\ nextId' = r.nextId
               /\ factoryCalls' = r.factoryCalls
               /\ result' = r.result
               /\ IF r.result.exc = "none"
                  THEN EnterBuild(name, options.dry_run, "main")
                  ELSE pc' = "crash" /\ UNCHANGED <<log, stack>>
    /\ UNCHANGED <<environ, variables, arg, argc>>
    /\ UNCHANGED <<default, rules, options, session, script, calls>>
    /\ UNCHANGED varsFs

\* lines 65-67: the next dependency is resolved and its build entered
BuildDep ==
    /\ pc = "build"
    /\ Top.fn = "build"
    /\ Top.i <= Len(BuildDeps(targets[Top.name]))
    /\ \E first \in FirstChoices(rules, BuildDeps(targets[Top.name])[Top.i]) :
           LET name == BuildDeps(targets[Top.name])[Top.i]
               r == Get(targets, rules, nextId, factoryCalls, name, first)
           IN  /\ targets' = r.targets
               /\ nextId' = r.nextId
               /\ factoryCalls' = r.factoryCalls
               /\ result' = r.result
               /\ IF r.result.exc = "none"
                  THEN EnterBuild(name, Top.dry_run, Top.ret)
                  ELSE pc' = "crash" /\ stack' = <<>> /\ UNCHANGED log
    /\ UNCHANGED <<default, rules, options, session, script, calls>>
    /\ UNCHANGED <<varsTable, varsFs>>

\* lines 68-84 once the dependencies are built: the memoized timestamp, the
\* staleness test, makedirs, the action, the new timestamp and the return.
\* tm is the wall clock during the step. A BuildError is caught by main
\* (lines 239-241) and is an uncaught exception in a call made by the script.
BuildStep ==
    /\ pc = "build"
    /\ Top.fn = "build"
    /\ Top.i > Len(BuildDeps(targets[Top.name]))
    /\ \E tm \in now..MaxTime, outcome \in Outcomes(targets[Top.name].action) :
        LET t == targets[Top.name]
            own == Memo(t, files)
            stale == Stale(own, Top.timestamp)
            runs == stale /\ Invokes(t, Top.dry_run)
            ds == IF stale /\ t.makedirs /\ ~Top.dry_run
                  THEN Makedirs(files, dirs, Dirname(t.name)) ELSE dirs
            ioerror == runs /\ ~CanWrite(ds, t.name)
            failed == runs /\ ~ioerror /\ Failed(outcome)
            ts == IF stale /\ ~ioerror /\ ~failed THEN Advance(Top.timestamp, tm) ELSE own
            l0 == IF stale THEN Judged(log, t.name) ELSE log
            l1 == IF t.timestamp = NoneTs /\ ~t.phony THEN Bump(l0, t.name, "stat") ELSE l0
            l2 == IF runs THEN Bump(l1, t.name, "action") ELSE l1
            l3 == IF failed /\ Cleans(t, FALSE) THEN Bump(l2, t.name, "remove") ELSE l2
        IN  /\ runs \/ outcome = "ok"
            /\ now' = tm
            /\ dirs' = ds
            /\ files' = IF runs /\ ~ioerror
                        THEN ActionFiles(files, t, tm, outcome, targets) ELSE files
            /\ targets' = [targets EXCEPT ![t.name].timestamp = ts]
            /\ log' = l3
            /\ IF ioerror
               THEN /\ stack' = <<>> /\ pc' = "crash"
                    /\ result' = [NoResult EXCEPT !.op = "build", !.name = t.name,
                                                  !.own = own, !.exc = "IOError"]
               ELSE IF failed
               THEN /\ stack' = <<>>
                    /\ pc' = Raise(Top.ret)
                    /\ result' = [NoResult EXCEPT !.op = "build", !.name = t.name,
                                                  !.own = own, !.exc = "BuildError"]
               ELSE /\ stack' = Return(ts)
                    /\ pc' = IF Len(stack) = 1 THEN Top.ret ELSE pc
                    /\ result' = [NoResult EXCEPT !.op = "build", !.name = t.name,
                                                  !.own = own, !.ret = ts]
    /\ UNCHANGED <<default, rules, nextId, factoryCalls>>
    /\ UNCHANGED <<options, session, script, calls>>
    /\ UNCHANGED varsTable

\* the process is run again over the same filesystem: the script declares
\* its targets afresh (timestamps unset) and main gets the same command line
Restart ==
    /\ pc \in {"done", "exit1"}
    /\ session < MaxSessions
    /\ session' = session + 1
    /\ targets' = script.targets
    /\ targets_' = script.targets_
    /\ nextId' = Cardinality(DOMAIN script.targets) + 1
    /\ factoryCalls' = 0
    /\ result' = NoResult
    /\ log' = NoLog
    /\ script' = [script EXCEPT !.prev = pc]
    /\ stack' = <<>>
    /\ pc' = "main"
    /\ UNCHANGED <<environ, variables, arg, argc>>
    /\ UNCHANGED <<default, rules, options, calls>>
    /\ UNCHANGED varsFs

NextBuild ==
    \/ MainBuild
    \/ BuildDep
    \/ BuildStep
    \/ MainReturn
    \/ Restart

\* the declarations of the build model: A on B and S or on nothing, B on S,
\* S a leaf; a target is a file with an action, a file with none or phony
\* with an action; B may be left to the rule, S to the placeholder
BuildKinds == {[action |-> "touch", phony |-> FALSE],
               [action |-> "none", phony |-> FALSE],
               [action |-> "touch", phony |-> TRUE]}
BuildDeclsA == {<<Target(0, A, k.action, TRUE, d, TRUE, k.phony, FALSE)>> :
                   k \in BuildKinds, d \in {<<B, S>>, <<>>}}
BuildDeclsB == {<<Target(0, B, k.action, TRUE, <<S>>, TRUE, k.phony, FALSE)>> :
                   k \in BuildKinds} \cup {<<>>}
BuildDeclsS == {<<Target(0, S, "touch", TRUE, <<>>, TRUE, FALSE, FALSE)>>, <<>>}
BuildScripts == {a \o b \o s : a \in BuildDeclsA, b \in BuildDeclsB, s \in BuildDeclsS}
BuildArgs == {<<A>>, <<B, A>>}
Mtimes == 0..MaxMtime
Filesystems == UNION {[D -> Mtimes] : D \in SUBSET Names}

InitRun(scripts, args, fss) ==
    /\ InitTableIdle
    /\ targets_ \in args
    /\ \E decls \in scripts :
           /\ targets = Declare(decls)
           /\ nextId = Len(decls) + 1
    /\ default = 1
    /\ rules = (<<"b">> :> "mkFile")
    /\ factoryCalls = 0 /\ result = NoResult
    /\ files \in fss
    /\ dirs = IF B \in DOMAIN files THEN {<<"d">>} ELSE {}
    /\ now = 1
    /\ options = NoOptions /\ stack = <<>> /\ session = 1
    /\ log = NoLog /\ calls = 0
    /\ script = [targets |-> targets, targets_ |-> targets_, prev |-> "none"]
    /\ pc = "main"

InitBuild == InitRun(BuildScripts, BuildArgs, Filesystems)

SpecBuild == InitBuild /\ [][NextBuild]_vars

\* the declarations of the failure model: A runs a command or captures its
\* output, with every combination of the clean and precious flags, and
\* depends on B; B is a leaf that touches or runs, or is left to the rule
FailDeclsA == {<<Target(0, A, a, k.clean, <<B>>, TRUE, FALSE, k.precious)>> :
                  a \in {"run", "output"}, k \in FlagKws}
FailDeclsB == {<<Target(0, B, a, TRUE, <<>>, TRUE, FALSE, FALSE)>> : a \in {"touch", "run"}}
              \cup {<<>>}
FailScripts == {a \o b : a \in FailDeclsA, b \in FailDeclsB}
FailFilesystems == UNION {[D -> Mtimes] : D \in SUBSET {A, B}}

InitFail == InitRun(FailScripts, {<<A>>}, FailFilesystems)

SpecFail == InitFail /\ [][NextBuild]_vars

\* the build script calls targets.get(name).build(dry_run)
ScriptBuild(name, dry_run) ==
    /\ pc = "script"
    /\ calls < MaxCalls
    /\ calls' = calls + 1
    /\ \E first \in FirstChoices(rules, name) :
           LET r == Get(targets, rules, nextId, factoryCalls, name, first)
           IN  /\ targets' = r.targets
               /\ nextId' = r.nextId
               /\ factoryCalls' = r.factoryCalls
               /\ result' = r.result
               /\ IF r.result.exc = "none"
                  THEN EnterBuild(name, dry_run, "script")
                  ELSE pc' = "crash" /\ UNCHANGED <<log, stack>>
    /\ UNCHANGED <<default, rules, options, session, script>>
    /\ UNCHANGED <<varsTable, varsFs>>

\* the declarations of the model of script calls: A touches or runs a
\* command and depends on B and S, B on S; B may be left to the rule or the
\* placeholder, and S is never declared
CallDeclsA == {<<Target(0, A, a, TRUE, <<B, S>>, TRUE, FALSE, FALSE)>> : a \in {"touch", "run"}}
CallDeclsB == {<<Target(0, B, "touch", TRUE, <<S>>, TRUE, FALSE, FALSE)>>, <<>>}
CallScripts == {a \o b : a \in CallDeclsA, b \in CallDeclsB}

InitCalls ==
    /\ InitTableIdle
    /\ targets_ = <<>>
    /\ \E decls \in CallScripts :
           /\ targets = Declare(decls)
           /\ nextId = Len(decls) + 1
    /\ default = 1
    /\ rules \in CleanRules
    /\ factoryCalls = 0 /\ result = NoResult
    /\ files \in {[n \in D |-> 1] : D \in {Names, {B, S}, {S}}}
    /\ dirs = {<<"d">>} /\ now = 1
    /\ options = NoOptions /\ stack = <<>> /\ session = 1
    /\ log = NoLog /\ calls = 0
    /\ script = [targets |-> targets, targets_ |-> <<>>, prev |-> "none"]
    /\ pc = "script"

NextCalls ==
    \/ \E name \in Names, really \in BOOLEAN, recurse \in BOOLEAN :
           ScriptClean(name, really, recurse)
    \/ \E name \in Names, dry_run \in BOOLEAN : ScriptBuild(name, dry_run)
    \/ CleanDep
    \/ CleanReturn
    \/ BuildDep
    \/ BuildStep

SpecCalls == InitCalls /\ [][NextCalls]_vars

\* the declarations of the model of aborted runs: A on B and S, B a leaf
\* whose command may fail, S a leaf that touches; the command line names A
\* alone, B before A, or S after A
AbortDeclsA == {<<Target(0, A, a, TRUE, <<B, S>>, TRUE, FALSE, FALSE)>> : a \in {"touch", "run"}}
AbortDeclsB == {<<Target(0, B, a, TRUE, <<>>, TRUE, FALSE, FALSE)>> : a \in {"run", "output"}}
AbortDeclsS == {<<Target(0, S, "touch", TRUE, <<>>, TRUE, FALSE, FALSE)>>}
AbortScripts == {a \o b \o s : a \in AbortDeclsA, b \in AbortDeclsB, s \in AbortDeclsS}
AbortArgs == {<<A>>, <<B, A>>, <<A, S>>}

InitAbort == InitRun(AbortScripts, AbortArgs, Filesystems)

SpecAbort == InitAbort /\ [][NextBuild]_vars

\* the declarations of the dry-run model: A on B and S, B on S; a target
\* touches its file or has no action, B may be virtual or left to the rule,
\* S may be left to the placeholder
DryDeclsA == {<<Target(0, A, a, TRUE, <<B, S>>, TRUE, FALSE, FALSE)>> : a \in {"touch", "none"}}
DryDeclsB == {<<Target(0, B, "touch", TRUE, <<S>>, TRUE, FALSE, FALSE)>>,
              <<Target(0, B, "none", TRUE, <<S>>, TRUE, FALSE, FALSE)>>,
              <<Target(0, B, "none", FALSE, <<S>>, TRUE, TRUE, FALSE)>>, <<>>}
DryScripts == {a \o b \o s : a \in DryDeclsA, b \in DryDeclsB, s \in BuildDeclsS}

\* pake -n is run at any time of the clock; the script record keeps the
\* filesystem and the clock the run started from
InitDry ==
    /\ InitTableIdle
    /\ targets_ \in BuildArgs
    /\ \E decls \in DryScripts :
           /\ targets = Declare(decls)
           /\ nextId = Len(decls) + 1
    /\ default = 1
    /\ rules = (<<"b">> :> "mkFile")
    /\ factoryCalls = 0 /\ result = NoResult
    /\ files \in Filesystems
    /\ dirs = IF B \in DOMAIN files THEN {<<"d">>} ELSE {}
    /\ now \in 1..MaxTime
    /\ options = [clean |-> FALSE, dry_run |-> TRUE, really |-> FALSE]
    /\ stack = <<>> /\ session = 1
    /\ log = NoLog /\ calls = 0
    /\ script = [targets |-> targets, targets_ |-> targets_, prev |-> "none",
                 files |-> files, dirs |-> dirs, now |-> now, dry |-> NoLog]
    /\ pc = "main"

\* after the dry run the process is run again without -n: the script
\* declares its targets afresh and main gets the same target names; the
\* log of the dry run is kept for comparison
RestartReal ==
    /\ pc = "done"
    /\ options.dry_run
    /\ session' = session + 1
    /\ options' = [options EXCEPT !.dry_run = FALSE]
    /\ targets' = script.targets
    /\ targets_' = script.targets_
    /\ nextId' = Cardinality(DOMAIN script.targets) + 1
    /\ factoryCalls' = 0
    /\ result' = NoResult
    /\ log' = NoLog
    /\ script' = [script EXCEPT !.prev = pc, !.dry = log]
    /\ stack' = <<>>
    /\ pc' = "main"
    /\ UNCHANGED <<environ, variables, arg, argc>>
    /\ UNCHANGED <<default, rules, calls>>
    /\ UNCHANGED varsFs

NextDry ==
    \/ MainBuild
    \/ BuildDep
    \/ BuildStep
    \/ MainReturn
    \/ RestartReal

SpecDry == InitDry /\ [][NextDry]_vars

(***************************************************************************)
(* Dependency cycles: the recursion of build and clean is cut by the       *)
(* interpreter's recursion limit, which raises RuntimeError.               *)
(***************************************************************************)
\* where the RuntimeError of an exhausted recursion leaves the process: no
\* frame of build or clean handles it, and main catches BuildError only
\* (line 239), a subclass of RuntimeError (lines 17, 30)
UnwindNowhere(p, st) == [pc |-> p, stack |-> st]
Unwind(p, st) == [pc |-> "crash", stack |-> <<>>]

\* lines 65-67 and 99-100 below the recursion limit
BuildDepWithin == Len(stack) < MaxDepth /\ BuildDep
CleanDepWithin == Len(stack) < MaxDepth /\ CleanDep

\* the call of line 66-67 or line 100 that exceeds the recursion limit
RecursionLimit ==
    /\ pc \in {"build", "clean"}
    /\ Len(stack) >= MaxDepth
    /\ Top.i <= Len(targets[Top.name].dependencies)
    /\ Top.fn = "clean" => Top.recurse
    /\ result' = [NoResult EXCEPT !.op = Top.fn, !.name = Top.name,
                                  !.exc = "RuntimeError"]
    /\ pc' = Unwind(pc, stack).pc
    /\ stack' = Unwind(pc, stack).stack
    /\ UNCHANGED <<targets, default, rules, nextId, factoryCalls>>
    /\ UNCHANGED <<options, session, log, script, calls>>
    /\ UNCHANGED <<varsTable, varsFs>>

\* the declarations of the cycle model: A, B and S are all declared, each
\* with any list of at most one dependency, itself included, or one of two
\* longer lists
CycleDeps == SeqsUpTo(Names, 1) \cup {<<B, S>>, <<S, A>>}
CycleScripts ==
    {<<Target(0, A, "touch", TRUE, da, TRUE, FALSE, FALSE),
       Target(0, B, "touch", TRUE, db, TRUE, FALSE, FALSE),
       Target(0, S, "touch", TRUE, ds, TRUE, FALSE, FALSE)>> :
        da \in CycleDeps, db \in CycleDeps, ds \in CycleDeps}
CycleOptions == {NoOptions} \cup {[clean |-> TRUE, dry_run |-> FALSE, really |-> r] :
                                     r \in BOOLEAN}

InitCycle ==
    /\ InitTableIdle
    /\ targets_ \in {<<n>> : n \in Names}
    /\ \E decls \in CycleScripts :
           /\ targets = Declare(decls)
           /\ nextId = Len(decls) + 1
    /\ default = 1
    /\ rules = EmptyFn
    /\ factoryCalls = 0 /\ result = NoResult
    /\ files \in {[n \in D |-> 1] : D \in {Names, {}}}
    /\ dirs = {<<"d">>} /\ now = MaxTime
    /\ options \in CycleOptions
    /\ stack = <<>> /\ session = 1
    /\ log = NoLog /\ calls = 0
    /\ script = [targets |-> targets, targets_ |-> targets_, prev |-> "none"]
    /\ pc = "main"

NextCycle ==
    \/ MainBuild
    \/ MainClean
    \/ BuildDepWithin
    \/ CleanDepWithin
    \/ RecursionLimit
    \/ BuildStep
    \/ CleanReturn
    \/ MainReturn

\* the interpreter always executes the next statement
SpecCycle == InitCycle /\ [][NextCycle]_vars /\ WF_vars(NextCycle)

(***************************************************************************)
(* Properties.                                                             *)
(***************************************************************************)
\* the process is about to run lines 68-84 of build for the top frame
AtBuildStep ==
    /\ pc = "build"
    /\ Top.fn = "build"
    /\ Top.i > Len(BuildDeps(targets[Top.name]))

\* the names a target depends on
Deps(t) == {t.dependencies[i] : i \in DOMAIN t.dependencies}

\* some dependency's memoized timestamp is strictly newer than ts
DepNewer(t, ts) == \E d \in Deps(t) : targets[d].timestamp > ts

\* C1 as stated: in a build that is no dry run, a target with an action has
\* it executed exactly when some dependency's timestamp is strictly newer
\* than its own, or its artifact is missing and it is not phony.
C1_RebuildExactlyWhenNewerOrMissing ==
    [][(AtBuildStep /\ targets[Top.name].action # "none" /\ ~options.dry_run) =>
        LET t == targets[Top.name]
            own == IF t.timestamp # NoneTs THEN t.timestamp
                   ELSE IF ~t.phony /\ t.name \in DOMAIN files THEN files[t.name]
                   ELSE -1
        IN  (log'[t.name].action = log[t.name].action + 1)
            <=> (DepNewer(t, own) \/ (t.name \notin DOMAIN files /\ ~t.phony))]_vars

\* C1 amended: in a build that is no dry run, a target with an action has it
\* executed exactly when some dependency's timestamp is strictly newer than
\* its memoized timestamp, or the target is visited for the first time in
\* the session and is phony or has no artifact (its timestamp is then -1,
\* below the 0 that an empty dependency list yields); so a phony target's
\* action runs on its first visit, also with no dependencies.
C1_RebuildWhenNewerOrFirstVisitMissingOrPhony ==
    [][(AtBuildStep /\ targets[Top.name].action # "none" /\ ~options.dry_run) =>
        LET t == targets[Top.name]
            first == t.timestamp = NoneTs
            own == IF ~first THEN t.timestamp
                   ELSE IF ~t.phony /\ t.name \in DOMAIN files THEN files[t.name]
                   ELSE -1
        IN  (log'[t.name].action = log[t.name].action + 1)
            <=> (DepNewer(t, own)
                 \/ (first /\ (t.phony \/ t.name \notin DOMAIN files)))]_vars

\* C1 witness: a phony target without dependencies had its action executed,
\* and a target whose artifact was as new as its dependency was left alone
C1_Witness ==
    /\ pc = "done"
    /\ targets[A].phony /\ targets[A].dependencies = <<>> /\ log[A].action = 1
    /\ B \in DOMAIN targets /\ targets[B].action = "touch" /\ ~targets[B].phony
    /\ log[B].build = 1 /\ log[B].action = 0

C3_CleanDeletesExactlyWhen ==
    [][/\ (Len(stack') = Len(stack) + 1 /\ stack'[Len(stack')].fn = "clean") =>
            LET f == stack'[Len(stack')]
                t == targets'[f.name]
                should == (t.clean \/ f.really) /\ ~t.precious
            IN  /\ log'[f.name].remove = log[f.name].remove + (IF should THEN 1 ELSE 0)
                /\ should => f.name \notin DOMAIN files'
                /\ \A n \in DOMAIN files : (n # f.name \/ ~should) => n \in DOMAIN files'
       /\ \A n \in DOMAIN targets :
            (targets[n].precious /\ n \in DOMAIN files) => n \in DOMAIN files']_vars

\* C3 witness: clean ran on the precious S, whose file is still there, and a
\* forced clean removed the file of A, which is not precious and not flagged
C3_Witness ==
    /\ S \in DOMAIN targets /\ targets[S].precious
    /\ log[S].clean >= 1 /\ S \in DOMAIN files
    /\ ~targets[A].clean /\ ~targets[A].precious
    /\ log[A].remove >= 1 /\ A \notin DOMAIN files

\* C4 as stated: whatever the target's clean and precious flags, after run
\* or output met a non-zero exit the target's artifact is absent and a
\* BuildError carrying the target is raised.
C4_FailedArtifactAbsent ==
    pc = "exit1" => (result.exc = "BuildError" /\ result.name \notin DOMAIN files)

\* C4 amended: when an action's run or output meets a non-zero exit, a
\* BuildError carrying the target is raised; the target's artifact is then
\* absent if the target's clean flag is true and it is not precious, while a
\* target with clean false or precious true keeps the artifact it had; no
\* other file, so no dependency's artifact, is removed or changed.
C4_FailedArtifactAbsentUnlessKept ==
    [][(pc = "build" /\ pc' = "exit1") =>
        LET t == targets[Top.name]
        IN  /\ result'.exc = "BuildError" /\ result'.name = t.name
            /\ (t.clean /\ ~t.precious) => t.name \notin DOMAIN files'
            /\ (~t.clean \/ t.precious) =>
                   (t.name \in DOMAIN files => t.name \in DOMAIN files')
            /\ \A n \in Names \ {t.name} :
                   /\ n \in DOMAIN files <=> n \in DOMAIN files'
                   /\ n \in DOMAIN files => files'[n] = files[n]]_vars

\* C4 witness: the command of A failed, its artifact was removed and the
\* artifact of its dependency B is in place
C4_Witness ==
    /\ pc = "exit1" /\ result.exc = "BuildError" /\ result.name = A
    /\ log[A].remove = 1 /\ A \notin DOMAIN files
    /\ log[B].action = 1 /\ B \in DOMAIN files

\* C5: within one session over an acyclic graph, with diamonds and several
\* top-level targets, each target's action is executed at most once and its
\* artifact is stat-ed at most once, and a timestamp memoized by a completed
\* visit is never changed by a later visit of the session.
C5_OncePerSession ==
    /\ [](\A n \in Names : log[n].action <= 1 /\ log[n].stat <= 1)
    /\ [][session' = session =>
            \A n \in DOMAIN targets :
                targets[n].timestamp # NoneTs =>
                    targets'[n].timestamp = targets[n].timestamp]_vars

\* C5 witness: S was visited three times and B twice in a finished session
\* of two top-level targets, and S was stat-ed and its action run once
C5_Witness ==
    /\ pc = "done"
    /\ script.targets_ = <<B, A>>
    /\ log[S].build = 3 /\ log[B].build = 2
    /\ log[S].action = 1 /\ log[S].stat = 1

\* the dependencies of a name in the graph the registry holds
DepsOf(n) == IF n \in DOMAIN targets THEN targets[n].dependencies ELSE <<>>

\* the number of dependency paths from one name to another (acyclic graphs)
RECURSIVE SumPaths(_, _)
Paths(from, to) == IF from = to THEN 1 ELSE SumPaths(DepsOf(from), to)
SumPaths(names, to) ==
    IF names = <<>> THEN 0 ELSE Paths(Head(names), to) + SumPaths(Tail(names), to)

\* C6 as stated: one top-level build enters the build of each transitive
\* dependency at most once, shared or not.
C6_EachDependencyEnteredAtMostOnce ==
    Len(script.targets_) = 1 => \A n \in Names : log[n].build <= 1

\* C6 amended: one top-level build over an acyclic graph enters the build of
\* each transitive dependency once for every dependency path that leads from
\* the target to it, so a dependency shared by several dependents is entered
\* more than once; only its first visit stats its artifact or runs its action.
C6_EachDependencyEnteredOncePerPath ==
    \A n \in Names :
        /\ log[n].build <= SumPaths(script.targets_, n)
        /\ pc = "done" => log[n].build = SumPaths(script.targets_, n)
        /\ log[n].stat <= 1 /\ log[n].action <= 1

\* C6 witness: the build of A alone entered the shared S twice and ran its
\* action once
C6_Witness ==
    /\ pc = "done"
    /\ script.targets_ = <<A>>
    /\ log[S].build = 2 /\ log[S].action = 1 /\ log[B].build = 1

\* whether the script or a rule gives a name an action
HasAction(n) ==
    IF n \in DOMAIN script.targets THEN script.targets[n].action # "none"
    ELSE Matching(rules, n) # {}

\* C7: after a build that completed without error over non-phony targets
\* whose sources exist and whose actions write their own artifact, an
\* immediately following build with fresh Target objects executes no action.
C7_SecondBuildRunsNothing ==
    (/\ session = 2 /\ script.prev = "done"
     /\ \A n \in DOMAIN script.targets : ~script.targets[n].phony
     /\ \A n \in Names : ~HasAction(n) => n \in DOMAIN files)
    => \A n \in Names : log[n].action = 0

GetStep == result'.op = "get" /\ (result' # result \/ nextId' # nextId)

\* C9: get on an unregistered name that two or more rules match raises
\* AmbiguousRuleError and leaves the name-to-target mapping and the default
\* pointer as they were, whichever rule the iteration meets first.
C9_AmbiguousGetRegistersNothing ==
    [][(GetStep /\ ~result'.registered /\ result'.matches >= 2) =>
        /\ result'.exc = "AmbiguousRuleError"
        /\ targets' = targets
        /\ default' = default]_vars

\* C9 witness: a get failed on two matching rules with targets registered
C9_Witness ==
    /\ result.op = "get" /\ result.exc = "AmbiguousRuleError"
    /\ result.matches = 2 /\ result.name = A
    /\ A \notin DOMAIN targets
    /\ DOMAIN targets # {} /\ default # 0

\* C10: get on an unregistered name that exactly one rule matches returns
\* the target that rule's factory makes and registers it under the name;
\* get on a registered name returns the registered instance and invokes no
\* factory; and no add, get or rule registration replaces a registered
\* instance, so every later get returns the identical instance.
C10_RuleTargetMemoized ==
    [][/\ (GetStep /\ ~result'.registered /\ result'.matches = 1) =>
            LET n == result'.name
                p == CHOOSE q \in DOMAIN rules : Search(q, n)
            IN  /\ result'.exc = "none"
                /\ n \in DOMAIN targets'
                /\ targets'[n].id = result'.ret /\ result'.ret = nextId
                /\ targets'[n].name = n
                /\ targets'[n].action = (IF rules[p] = "mkFile" THEN "touch" ELSE "none")
                /\ factoryCalls' = factoryCalls + 1
       /\ (GetStep /\ result'.registered) =>
            /\ result'.exc = "none"
            /\ result'.ret = targets[result'.name].id
            /\ factoryCalls' = factoryCalls
            /\ nextId' = nextId
       /\ \A n \in DOMAIN targets : n \in DOMAIN targets' /\ targets'[n] = targets[n]]_vars

\* C10 witness: B was made by the one matching rule as object 1 (the
\* default, set by the first add, is object 2), a third object and a second
\* rule were registered since, and a get of B returned object 1 again
C10_Witness ==
    /\ result.op = "get" /\ result.name = B /\ result.registered
    /\ result.matches = 1 /\ result.ret = 1 /\ targets[B].id = 1
    /\ targets[B].action = "touch" /\ factoryCalls = 1
    /\ default = 2 /\ nextId = 4 /\ DOMAIN rules = Patterns

\* the step is a call of TargetCollection.add on a newly constructed Target
AddStep == result'.op = "add" /\ nextId' = nextId + 1

\* C11: add of a target whose name is registered, whether it was added
\* explicitly or synthesized earlier by get, raises DuplicateTargetError and
\* leaves the registry and the default pointer as they were; so no add and
\* no get ever replaces the instance registered under a name.
C11_DuplicateAddChangesNothing ==
    [][/\ (AddStep /\ result'.registered) =>
            /\ result'.exc = "DuplicateTargetError"
            /\ targets' = targets
            /\ default' = default
       /\ (AddStep /\ ~result'.registered) =>
            /\ result'.exc = "none"
            /\ targets'[result'.name].id = nextId
       /\ \A n \in DOMAIN targets :
            n \in DOMAIN targets' /\ targets'[n].id = targets[n].id]_vars

\* C11 witness: S was synthesized by get as the placeholder, object 1, and a
\* later add of a target named S failed; S is still object 1 and the default
\* pointer, which no add has set, is still None
C11_Witness ==
    /\ result.op = "add" /\ result.exc = "DuplicateTargetError" /\ result.name = S
    /\ targets[S].id = 1 /\ targets[S].precious
    /\ default = 0 /\ nextId >= 3

\* the names that have no explicit target and that no rule matches
Unclaimed == {n \in Names : n \notin DOMAIN script.targets /\ Matching(rules, n) = {}}

\* C12: a name with no explicit target and no matching rule resolves to a
\* registered placeholder with no action and precious true, and whatever
\* build and clean calls are made, with any really and recurse, on the name
\* or on a dependent, an existing file of that name is never deleted.
C12_PlaceholderFileNeverDeleted ==
    [][/\ (GetStep /\ ~result'.registered /\ result'.matches = 0) =>
            LET n == result'.name
            IN  /\ result'.exc = "none"
                /\ n \in DOMAIN targets'
                /\ targets'[n].id = result'.ret
                /\ targets'[n].action = "none" /\ targets'[n].precious
       /\ \A n \in Unclaimed :
            /\ n \in DOMAIN targets => (targets[n].action = "none" /\ targets[n].precious)
            /\ n \in DOMAIN files => (n \in DOMAIN files' /\ files'[n] = files[n])]_vars

\* C12 witness: S, a placeholder with a file, was built as a dependency, and
\* is being cleaned with really as a dependency of a target whose own file
\* that clean removed
C12_Witness ==
    /\ pc = "clean" /\ Len(stack) >= 2
    /\ Top.name = S /\ Top.really
    /\ S \in Unclaimed /\ S \in DOMAIN files
    /\ log[S].build >= 1 /\ log[S].clean >= 1
    /\ \E n \in Names \ {S} : log[n].remove >= 1 /\ n \notin DOMAIN files

\* C13: once an action raises BuildError in a run of the driver, no further
\* action is executed in that run, neither of the failing target's
\* dependents nor of dependencies not yet visited nor of the remaining
\* top-level names; the failing target's memoized timestamp is not advanced
\* (it keeps the value tested at line 74), and the driver exits with status 1.
C13_BuildErrorEndsRun ==
    /\ [][(pc = "build" /\ result'.exc = "BuildError") =>
            LET t == targets[Top.name]
                own == IF t.timestamp # NoneTs THEN t.timestamp
                       ELSE IF ~t.phony /\ t.name \in DOMAIN files THEN files[t.name]
                       ELSE -1
            IN  /\ result'.name = t.name
                /\ log'[t.name].action = log[t.name].action + 1
                /\ targets'[t.name].timestamp = own
                /\ own < Top.timestamp
                /\ \A n \in DOMAIN targets \ {t.name} : targets'[n] = targets[n]
                /\ pc' = "exit1" /\ stack' = <<>>]_vars
    /\ [](result.exc = "BuildError" => pc = "exit1")
    /\ [][(result.exc = "BuildError" /\ session' = session) =>
            (log' = log /\ files' = files /\ targets' = targets)]_vars

\* C13 witness: the command of B, the first dependency of A, failed; the
\* stale S, a dependency not yet visited and the next top-level name, was not
\* entered, the action of A did not run and B's timestamp is still -1
C13_Witness ==
    /\ pc = "exit1" /\ result.exc = "BuildError" /\ result.name = B
    /\ script.targets_ = <<A, S>> /\ targets_ = <<S>>
    /\ log[B].action = 1 /\ targets[B].timestamp = -1
    /\ log[A].build = 1 /\ log[A].action = 0 /\ targets[A].timestamp = NoneTs
    /\ S \notin DOMAIN files /\ log[S].build = 0 /\ log[S].action = 0

\* C14: a target that is not phony and whose artifact does not exist has the
\* memoized timestamp -1 at the staleness test of its first build visit and
\* is judged stale on that visit, whatever its dependencies (none included)
\* and with or without an action: its timestamp advances, and its action, if
\* it has one and the build is no dry run, is executed.
C14_MissingArtifactAlwaysStale ==
    [][(/\ AtBuildStep
        /\ targets[Top.name].timestamp = NoneTs
        /\ ~targets[Top.name].phony
        /\ ~Exists(files, dirs, Top.name)) =>
        LET t == targets[Top.name]
        IN  /\ result'.op = "build" /\ result'.name = t.name
            /\ result'.own = -1
            /\ result'.own < Top.timestamp
            /\ targets'[t.name].timestamp =
                   (IF Top.timestamp # 0 THEN Top.timestamp ELSE now')
            /\ targets'[t.name].timestamp > -1
            /\ log'[t.name].action = log[t.name].action +
                   (IF t.action # "none" /\ ~Top.dry_run THEN 1 ELSE 0)]_vars

\* C14 witness: A, with no action, no dependencies and no artifact, was
\* tested with -1 and advanced to the wall clock
C14_Witness ==
    /\ result.op = "build" /\ result.name = A /\ result.own = -1
    /\ targets[A].action = "none" /\ targets[A].dependencies = <<>>
    /\ ~targets[A].phony /\ A \notin DOMAIN files
    /\ log[A].stat = 1 /\ log[A].action = 0
    /\ targets[A].timestamp = now /\ result.ret = now

\* C15: get invokes a rule's factory only when exactly one registered rule
\* matches the requested name: when two or more rules match, no factory is
\* invoked before AmbiguousRuleError is raised, and when the name is already
\* registered no factory is invoked.
C15_FactoryInvokedOnlyOnSingleMatch ==
    [][GetStep =>
        /\ factoryCalls' # factoryCalls => (~result'.registered /\ result'.matches = 1)
        /\ (~result'.registered /\ result'.matches >= 2) =>
               (result'.exc = "AmbiguousRuleError" /\ result'.made = 0)
        /\ result'.registered => result'.made = 0]_vars

\* the build of a registered name has completed in this session
Built(n) == n \in DOMAIN targets /\ targets[n].timestamp # NoneTs

\* C16: in a build over an acyclic graph a target's action is executed only
\* after the build of every one of its dependencies has completed, so after
\* the action of every stale transitive dependency (none of them runs an
\* action later in the session); and the dependencies are built depth-first
\* in their declared order: the build in progress below a frame is that of
\* the frame's current dependency, entered when all earlier ones are built.
C16_ActionAfterDependenciesInOrder ==
    /\ [](\A k \in 1..(Len(stack) - 1) :
            stack[k].fn = "build" =>
                LET ds == targets[stack[k].name].dependencies
                IN  /\ stack[k].i <= Len(ds)
                    /\ stack[k + 1].name = ds[stack[k].i]
                    /\ \A j \in 1..(stack[k].i - 1) : Built(ds[j]))
    /\ [][\A n \in Names :
            log'[n].action = log[n].action + 1 =>
                /\ \A d \in Deps(targets[n]) : Built(d) /\ log[d].build >= 1
                /\ Top.name = n /\ Top.i = Len(targets[n].dependencies) + 1]_vars
    /\ [][\A n \in Names, d \in Names :
            (/\ log[n].action >= 1 /\ session' = session
             /\ d # n /\ Paths(n, d) >= 1) =>
                log'[d].action = log[d].action]_vars

\* C16 witness: in the build of A on B and S, B on S, every action ran: that
\* of S at time 1, before that of A at time 2
C16_Witness ==
    /\ pc = "done" /\ script.targets_ = <<A>>
    /\ targets[A].dependencies = <<B, S>> /\ targets[B].dependencies = <<S>>
    /\ log[A].action = 1 /\ log[B].action = 1 /\ log[S].action = 1
    /\ files[S] = 1 /\ files[A] = 2

\* a build with dry_run leaves the filesystem alone and runs no action, and
\* it judges staleness and advances the memoized timestamp as any build does
DryRunFrame ==
    /\ [][(options.dry_run /\ session' = session) =>
            /\ files' = files /\ dirs' = dirs
            /\ \A n \in Names : log'[n].action = 0]_vars
    /\ [][(AtBuildStep /\ Top.dry_run) =>
            LET t == targets[Top.name]
                own == IF t.timestamp # NoneTs THEN t.timestamp
                       ELSE IF ~t.phony /\ t.name \in DOMAIN files THEN files[t.name]
                       ELSE -1
            IN  /\ result'.own = own
                /\ log'[t.name].stale > 0 <=> (own < Top.timestamp \/ log[t.name].stale > 0)
                /\ targets'[t.name].timestamp =
                       (IF own >= Top.timestamp THEN own
                        ELSE IF Top.timestamp # 0 THEN Top.timestamp ELSE now')]_vars

\* the real build that followed the dry run has finished
RealDone == session = 2 /\ pc = "done" /\ ~options.dry_run

\* every file the dry run started from was older than the clock
FilesOlder == \A n \in DOMAIN script.files : script.files[n] < script.now

C18_StaleAdvancesToDependencyMaxOrNow ==
    [][(AtBuildStep /\ result'.exc = "none") =>
        LET t == targets[Top.name]
            own == IF t.timestamp # NoneTs THEN t.timestamp
                   ELSE IF ~t.phony /\ t.name \in DOMAIN files THEN files[t.name]
                   ELSE -1
            depmax == Top.timestamp
            stale == own < depmax
        IN  /\ \A d \in Deps(t) : depmax >= targets[d].timestamp
            /\ depmax = 0 \/ \E d \in Deps(t) : depmax = targets[d].timestamp
            /\ stale => targets'[t.name].timestamp =
                            (IF depmax # 0 THEN depmax ELSE now')
            /\ stale => log'[t.name].action = log[t.name].action +
                            (IF t.action # "none" /\ ~Top.dry_run THEN 1 ELSE 0)
            /\ ~stale => (targets'[t.name].timestamp = own /\ log'[t.name].action = log[t.name].action)
            /\ result'.ret = targets'[t.name].timestamp
            /\ result'.ret # -1 /\ result'.ret # NoneTs
            /\ \A d \in Deps(t) : result'.ret >= targets[d].timestamp]_vars

\* C18 witness: d/b, with a file of time 0 and no action, was stale against
\* S, whose file of time 1 was left alone, and advanced to 1 at time 2 with
\* no action run and its file untouched
C18_Witness ==
    /\ result.op = "build" /\ result.name = B /\ result.own = 0 /\ result.ret = 1
    /\ targets[B].action = "none" /\ ~targets[B].phony /\ targets[B].dependencies = <<S>>
    /\ targets[B].timestamp = 1 /\ log[B].action = 0 /\ files[B] = 0
    /\ targets[S].timestamp = 1 /\ log[S].action = 0 /\ files[S] = 1
    /\ now = 2

\* a target as virtual declares it: phony, clean=False, not precious
IsVirtual(t) == t.phony /\ ~t.clean /\ ~t.precious

\* C19: clean never deletes a file on behalf of a phony target: for a target
\* declared with virtual and an existing file of its name, no clean call,
\* whatever its really and recurse flags, removes that file.
C19_VirtualFileNeverRemoved ==
    [][\A n \in DOMAIN targets :
        (IsVirtual(targets[n]) /\ n \in DOMAIN files) => n \in DOMAIN files']_vars

\* the graph the script declared has a dependency cycle through n
OnCycle(n) == \E d \in Deps(script.targets[n]) :
                 d = n \/ \E e \in Deps(script.targets[d]) :
                             e = n \/ n \in Deps(script.targets[e])

\* C20: for every finite graph of explicitly declared targets, build and
\* clean with recurse on any target terminate, by returning or by raising an
\* error, also when a dependency cycle is reachable from the target: the
\* recursion then ends in the RuntimeError of the recursion limit, and it
\* ends in no error of the kind when no cycle is reachable.
C20_BuildAndCleanTerminate ==
    /\ <>(pc \in {"done", "crash", "exit1"})
    /\ [](Len(stack) <= MaxDepth)
    /\ [](result.exc = "RuntimeError" =>
            (pc = "crash" /\ \E n \in Names : OnCycle(n)))

\* C20 witness: the build of A, which depends on B, which depends on A, went
\* round the cycle and ended in the RuntimeError
C20_Witness ==
    /\ pc = "crash" /\ result.exc = "RuntimeError" /\ result.op = "build"
    /\ script.targets_ = <<A>>
    /\ targets[A].dependencies = <<B>> /\ targets[B].dependencies = <<A>>
    /\ log[A].build >= 2 /\ log[B].build >= 2
    /\ log[A].action = 0 /\ log[B].action = 0

====
